---- MODULE Spec2Model ----
(***************************************************************************)
(* Model of the text -> MP3 -> MP4 page of src/app/layout.tsx (Page):      *)
(* the job state held in React state, the busy flag, the recorder refs,    *)
(* and one closure per run of handleGenerate.  The closure of a run is     *)
(* dropped when the run ends; ended keeps the closure of the run that      *)
(* ended last, so that its outcome can be stated.  The platform            *)
(* services (display capture, MediaRecorder, speech synthesis, the ffmpeg  *)
(* encoder, canvas export) are the environment: each suspension point of   *)
(* the code is one action per way the awaited promise or callback can      *)
(* settle.                                                                 *)
(*                                                                         *)
(* Strings are kept run-length encoded: a string is a sequence of runs     *)
(* [c |-> character, n |-> repetitions], adjacent runs having different    *)
(* characters, so that texts of 200,000 characters stay small values.      *)
(* Every string operation of the code (trim, length, slice at a match,     *)
(* concatenation) is computed on that representation.                      *)
(*                                                                         *)
(* splitText and wrapText are also run on their own (SplitSpec, WrapSpec): *)
(* call holds the arguments, drawn from every short text and every small   *)
(* maximum, and then the result of the one call.                           *)
(***************************************************************************)
EXTENDS Integers, Sequences, FiniteSets, TLC

\* ------------------------------------------------------------------------
\* Bounds of the model
\* ------------------------------------------------------------------------
MaxJobs == 2    \* runs of the pipeline started in one behaviour
MaxData == 1    \* timeslice buffers the recorders deliver in one behaviour

None == "none"

\* ------------------------------------------------------------------------
\* Strings
\* ------------------------------------------------------------------------
R(c, n) == [c |-> c, n |-> n]

\* characters String.prototype.trim removes
IsSpace(c) == c \in {" ", "\n"}

\* character class of sentenceRe, first alternative: [.!?...]+
IsTerminator(c) == c \in {".", "!", "?"}

RECURSIVE StrLen(_)
StrLen(s) == IF s = <<>> THEN 0 ELSE Head(s).n + StrLen(Tail(s))

RECURSIVE TrimStart(_)
TrimStart(s) ==
    IF s = <<>> THEN <<>>
    ELSE IF IsSpace(Head(s).c) THEN TrimStart(Tail(s)) ELSE s

RECURSIVE TrimEnd(_)
TrimEnd(s) ==
    IF s = <<>> THEN <<>>
    ELSE IF IsSpace(s[Len(s)].c) THEN TrimEnd(SubSeq(s, 1, Len(s) - 1)) ELSE s

Trim(s) == TrimEnd(TrimStart(s))

\* s.slice(from, to), both counted in runs: runs from..to of s
Slice(s, from, to) == SubSeq(s, from, to)

\* sentenceRe = /([.!?]+|\n+)/g : last run of the match that starts at run i
\* (the regular expression is greedy: a block of terminator runs is one
\* match, a run of newlines is one match)
RECURSIVE MatchEnd(_, _)
MatchEnd(s, i) ==
    IF s[i].c = "\n" THEN i
    ELSE IF i < Len(s) /\ IsTerminator(s[i + 1].c) THEN MatchEnd(s, i + 1)
    ELSE i

\* a mis-step of the while loop: the text after the last match is dropped
RECURSIVE SentencesNoTail(_, _, _, _)
SentencesNoTail(s, i, lastIndex, parts) ==
    IF i > Len(s)
    THEN parts
    ELSE IF IsTerminator(s[i].c) \/ s[i].c = "\n"
    THEN LET end     == MatchEnd(s, i)
             segment == Trim(Slice(s, lastIndex, end))
         IN  SentencesNoTail(s, end + 1, end + 1,
                             IF segment # <<>> THEN Append(parts, segment) ELSE parts)
    ELSE SentencesNoTail(s, i + 1, lastIndex, parts)

\* the while loop of splitText: scan from run i, lastIndex being the run
\* after the previous match
RECURSIVE Sentences(_, _, _, _)
Sentences(s, i, lastIndex, parts) ==
    IF i > Len(s)
    THEN LET tail == Trim(Slice(s, lastIndex, Len(s)))
         IN  IF tail # <<>> THEN Append(parts, tail) ELSE parts
    ELSE IF IsTerminator(s[i].c) \/ s[i].c = "\n"
    THEN LET end     == MatchEnd(s, i)
             segment == Trim(Slice(s, lastIndex, end))
         IN  Sentences(s, end + 1, end + 1,
                       IF segment # <<>> THEN Append(parts, segment) ELSE parts)
    ELSE Sentences(s, i + 1, lastIndex, parts)

\* a mis-step of the for loop: the joining space is not counted
RECURSIVE MergeNoSpace(_, _, _, _, _)
MergeNoSpace(parts, k, buf, merged, maxLen) ==
    IF k > Len(parts)
    THEN IF buf # <<>> THEN Append(merged, buf) ELSE merged
    ELSE LET p == parts[k]
         IN  IF StrLen(buf) + StrLen(p) <= maxLen
             THEN MergeNoSpace(parts, k + 1,
                               (IF buf # <<>> THEN buf \o <<R(" ", 1)>> ELSE <<>>) \o p,
                               merged, maxLen)
             ELSE MergeNoSpace(parts, k + 1, p,
                               IF buf # <<>> THEN Append(merged, buf) ELSE merged,
                               maxLen)

\* a mis-step of the for loop: buf is pushed even when it is empty
RECURSIVE MergePushEmpty(_, _, _, _, _)
MergePushEmpty(parts, k, buf, merged, maxLen) ==
    IF k > Len(parts)
    THEN IF buf # <<>> THEN Append(merged, buf) ELSE merged
    ELSE LET p == parts[k]
         IN  IF StrLen(Trim(buf \o <<R(" ", 1)>> \o p)) <= maxLen
             THEN MergePushEmpty(parts, k + 1,
                                 (IF buf # <<>> THEN buf \o <<R(" ", 1)>> ELSE <<>>) \o p,
                                 merged, maxLen)
             ELSE MergePushEmpty(parts, k + 1, p, Append(merged, buf), maxLen)

\* the for loop of splitText: merge parts k.. into buf while they fit
RECURSIVE Merge(_, _, _, _, _)
Merge(parts, k, buf, merged, maxLen) ==
    IF k > Len(parts)
    THEN IF buf # <<>> THEN Append(merged, buf) ELSE merged
    ELSE LET p == parts[k]
         IN  IF StrLen(Trim(buf \o <<R(" ", 1)>> \o p)) <= maxLen
             THEN Merge(parts, k + 1,
                        (IF buf # <<>> THEN buf \o <<R(" ", 1)>> ELSE <<>>) \o p,
                        merged, maxLen)
             ELSE Merge(parts, k + 1, p,
                        IF buf # <<>> THEN Append(merged, buf) ELSE merged,
                        maxLen)

splitText(input, maxLen) ==
    LET remaining == Trim(input)
        parts     == Sentences(remaining, 1, 1, <<>>)
        merged    == Merge(parts, 1, <<>>, <<>>, maxLen)
    IN  IF merged # <<>> THEN merged ELSE <<remaining>>


\* ------------------------------------------------------------------------
\* wrapText
\* ------------------------------------------------------------------------
\* text.replace(/\s+/g, " "): every block of white space becomes one space
RECURSIVE Collapse(_)
Collapse(s) ==
    IF s = <<>> THEN <<>>
    ELSE IF IsSpace(Head(s).c) THEN <<R(" ", 1)>> \o Collapse(TrimStart(s))
    ELSE <<Head(s)>> \o Collapse(Tail(s))

\* s.split(" "): word is the text since the last space; n spaces in a row
\* leave n - 1 empty words between them
RECURSIVE SplitAtSpaces(_, _, _)
SplitAtSpaces(s, word, words) ==
    IF s = <<>> THEN Append(words, word)
    ELSE IF Head(s).c = " "
    THEN SplitAtSpaces(Tail(s), <<>>,
                       Append(words, word) \o [k \in 1..(Head(s).n - 1) |-> <<>>])
    ELSE SplitAtSpaces(Tail(s), Append(word, Head(s)), words)

\* ctx.measureText(s).width for a measure that adds up over characters
CharWidth(c) == IF c = "m" THEN 2 ELSE 1
RECURSIVE Width(_)
Width(s) == IF s = <<>> THEN 0 ELSE Head(s).n * CharWidth(Head(s).c) + Width(Tail(s))

\* a mis-step of the for loop: the word is measured instead of the line
\* with the word appended
RECURSIVE WrapLinesWordOnly(_, _, _, _, _)
WrapLinesWordOnly(words, k, line, lines, maxWidth) ==
    IF k > Len(words)
    THEN IF line # <<>> THEN Append(lines, line) ELSE lines
    ELSE LET w    == words[k]
             test == (IF line # <<>> THEN line \o <<R(" ", 1)>> ELSE <<>>) \o w
         IN  IF Width(w) > maxWidth
             THEN WrapLinesWordOnly(words, k + 1, w,
                                    IF line # <<>> THEN Append(lines, line) ELSE lines,
                                    maxWidth)
             ELSE WrapLinesWordOnly(words, k + 1, test, lines, maxWidth)

\* the for loop of wrapText: words k.. are appended to line while it fits
RECURSIVE WrapLines(_, _, _, _, _)
WrapLines(words, k, line, lines, maxWidth) ==
    IF k > Len(words)
    THEN IF line # <<>> THEN Append(lines, line) ELSE lines
    ELSE LET w    == words[k]
             test == (IF line # <<>> THEN line \o <<R(" ", 1)>> ELSE <<>>) \o w
         IN  IF Width(test) > maxWidth
             THEN WrapLines(words, k + 1, w,
                            IF line # <<>> THEN Append(lines, line) ELSE lines,
                            maxWidth)
             ELSE WrapLines(words, k + 1, test, lines, maxWidth)

wrapText(text, maxWidth) ==
    LET words == SplitAtSpaces(Trim(Collapse(text)), <<>>, <<>>)
    IN  WrapLines(words, 1, <<>>, <<>>, maxWidth)

\* ------------------------------------------------------------------------
\* Program constants
\* ------------------------------------------------------------------------
TextLimit == 200000          \* handleGenerate: text.length > 200_000
ChunkMaxLen == 1800          \* speakText: splitText(text, 1800)
TooLongMessage == "O texto excede 200.000 caracteres."

NoUrl == 0                   \* mp3Url / mp4Url / imageUrl undefined
NoProgress == -1             \* progress undefined

\* ------------------------------------------------------------------------
\* Inputs: the values the textarea can hold
\* ------------------------------------------------------------------------
\* (maxLength={200_000} limits what a user can type or paste; a value set by
\* script is not limited, and handleGenerate checks the length itself)
\* two sentences of 1800 characters each, padded with white space
TextTwo ==
    << R(" ", 2), R("a", 1799), R(".", 1), R(" ", 1), R("a", 1799), R("!", 1),
       R("\n", 1) >>
\* 200,001 characters after trimming
TextOver == << R(" ", 1), R("a", 200001) >>
\* white space only
TextBlank == << R(" ", 2), R("\n", 1) >>

Texts == {TextTwo, TextOver, TextBlank}

\* errors the platform services reject with: message is err.message
\* (None when the value thrown has none), str is String(err)
DeniedError ==
    [message |-> "Permission denied", str |-> "NotAllowedError: Permission denied"]
UnsupportedError ==
    [message |-> "mimeType is not supported", str |-> "NotSupportedError: mimeType is not supported"]
\* SpeechSynthesisErrorEvent.error is an error code, a plain string
SpeechError == [message |-> None, str |-> "synthesis-failed"]
EncoderError == [message |-> "ffmpeg failed", str |-> "Error: ffmpeg failed"]

\* err?.message ?? String(err)
errorText(err) == IF err.message # None THEN err.message ELSE err.str

\* Math.round((index / n) * 25)
Round25(index, n) == (50 * index + n) \div (2 * n)

\* ------------------------------------------------------------------------
\* State
\* ------------------------------------------------------------------------
VARIABLES
    state,      \* JobState: text, status, error, progress, mp3Url, mp4Url, imageUrl
    isBusy,     \* useState(false)
    recRef,     \* recRef.current: the recorder of the latest capture, 0 = null
    chunksRef,  \* chunksRef.current: the buffered recorder data
    njobs,      \* runs of speakAndRecord started so far
    jobs,       \* per run: the closure of handleGenerate/speakAndRecord/speakText
    ended,      \* the run that ended last and its closure at that moment
    recorder,   \* per run: the state of its MediaRecorder
    slices,     \* timeslice buffers delivered so far, by all recorders
    tracks,     \* per run: the tracks of its capture stream and the stop timer
    synth,      \* window.speechSynthesis: the utterance queue
    call        \* a call of splitText or wrapText on its own: arguments, result

vars == <<state, isBusy, recRef, chunksRef, njobs, jobs, ended, recorder, slices,
          tracks, synth, call>>

JobIds == 1..MaxJobs

Pipeline == <<"capture", "speech", "stop", "transcode", "render", "compose">>

NoJob ==
    [pc |-> "idle", text |-> <<>>, chunks |-> <<>>, index |-> 0, ends |-> 0,
     spoken |-> <<>>, stages |-> <<>>, completed |-> 0, delivered |-> <<>>,
     webm |-> <<>>, failedAt |-> 0]

\* a run that has ended: its closure is gone
EndedJob == [NoJob EXCEPT !.pc = "ended"]

\* the record kept of the run j that ends with the given outcome
Outcome(j, job, outcome) ==
    [run |-> j,
     job |-> [job EXCEPT !.pc = outcome, !.delivered = <<>>, !.webm = <<>>]]

\* the page after its first render
PageInit ==
    /\ state = [text |-> <<>>, status |-> "idle", error |-> None,
                progress |-> NoProgress, mp3Url |-> NoUrl, mp4Url |-> NoUrl,
                imageUrl |-> NoUrl]
    /\ isBusy = FALSE
    /\ recRef = 0
    /\ chunksRef = <<>>
    /\ njobs = 0
    /\ jobs = [j \in JobIds |-> NoJob]
    /\ ended = [run |-> 0, job |-> NoJob]
    /\ recorder = [j \in JobIds |-> "none"]
    /\ slices = 0
    /\ tracks = [j \in JobIds |-> [video |-> "none", audio |-> "none", timer |-> "none"]]
    /\ synth = <<>>

\* no call of splitText or wrapText on its own
NoCall == [fn |-> None, input |-> <<>>, max |-> 0, done |-> FALSE, result |-> <<>>]

Init == PageInit /\ call = NoCall

\* ------------------------------------------------------------------------
\* The text area
\* ------------------------------------------------------------------------
onChange(t) ==
    /\ state' = [state EXCEPT !.text = t]
    /\ UNCHANGED <<isBusy, recRef, chunksRef, njobs, jobs, ended, recorder,
                   slices, tracks, synth, call>>

\* ------------------------------------------------------------------------
\* handleGenerate and the start of speakAndRecord
\* ------------------------------------------------------------------------
\* disabled={isBusy || !state.text.trim()}
Disabled == isBusy \/ Trim(state.text) = <<>>

\* speakAndRecord up to the await of getDisplayMedia
speakAndRecord(j, text) ==
    /\ isBusy' = TRUE
    /\ state' = [state EXCEPT !.status = "capturing", !.error = None,
                              !.progress = 0, !.mp3Url = NoUrl, !.mp4Url = NoUrl]
    /\ jobs' = [jobs EXCEPT ![j] = [NoJob EXCEPT !.pc = "permission",
                                                 !.text = text,
                                                 !.stages = <<"capture">>]]
    /\ njobs' = j
    /\ UNCHANGED <<recRef, chunksRef, ended, recorder, slices, tracks, synth, call>>

\* a mis-step of handleGenerate: the length check is missing
handleGenerateUnchecked ==
    LET text == Trim(state.text)
    IN  IF text = <<>>
        THEN UNCHANGED vars
        ELSE /\ njobs < MaxJobs
             /\ speakAndRecord(njobs + 1, text)

handleGenerate ==
    LET text == Trim(state.text)
    IN  IF text = <<>>
        THEN UNCHANGED vars
        ELSE IF StrLen(text) > TextLimit
        THEN /\ state' = [state EXCEPT !.error = TooLongMessage]
             /\ UNCHANGED <<isBusy, recRef, chunksRef, njobs, jobs, ended,
                            recorder, slices, tracks, synth, call>>
        ELSE /\ njobs < MaxJobs
             /\ speakAndRecord(njobs + 1, text)

\* a mis-step of the button: it is enabled whenever no run is busy and it
\* starts speakAndRecord with the text as typed
ClickUnguarded ==
    /\ ~isBusy
    /\ njobs < MaxJobs
    /\ speakAndRecord(njobs + 1, state.text)

\* a click on the generate button
Click == ~Disabled /\ handleGenerate

\* a mis-step of the catch block: the error is recorded but not rethrown,
\* so handleGenerate carries on with generateImageFromText
speakAndRecordCatchNoThrow(j, job, err) ==
    /\ state' = [state EXCEPT !.status = "error", !.error = errorText(err)]
    /\ isBusy' = FALSE
    /\ jobs' = [jobs EXCEPT ![j] = [job EXCEPT !.pc = "rendering",
                                              !.stages = Append(@, "render")]]
    /\ UNCHANGED ended

\* the catch and finally blocks of speakAndRecord, then the empty catch of
\* handleGenerate
speakAndRecordCatch(j, job, err) ==
    /\ state' = [state EXCEPT !.status = "error", !.error = errorText(err)]
    /\ isBusy' = FALSE
    /\ jobs' = [jobs EXCEPT ![j] = EndedJob]
    /\ ended' = Outcome(j, job, "failed")


\* a mis-step of the catch of handleGenerate: the failure is dropped and the
\* run carries on with composeVideo
handleGenerateCatchContinue(j) ==
    /\ jobs' = [jobs EXCEPT ![j].pc = "composing",
                            ![j].stages = Append(@, "compose")]
    /\ UNCHANGED <<state, isBusy, ended>>

\* the empty catch of handleGenerate, reached from generateImageFromText and
\* composeVideo: nothing is written to the job state
handleGenerateCatch(j) ==
    /\ jobs' = [jobs EXCEPT ![j] = EndedJob]
    /\ ended' = Outcome(j, jobs[j], "aborted")
    /\ UNCHANGED <<state, isBusy>>

\* ------------------------------------------------------------------------
\* speakText, speakChunk
\* ------------------------------------------------------------------------
\* speakText up to the first speakChunk: chunks[0] is handed to the
\* synthesizer
speakText(job) ==
    LET chunks == splitText(job.text, ChunkMaxLen)
    IN  [job EXCEPT !.chunks = chunks, !.index = 0, !.spoken = <<chunks[1]>>]

\* a mis-step of onEnd: the index is advanced after the next chunk is chosen
onEndRepeat(job) ==
    LET index == job.index + 1
    IN  [job EXCEPT !.index = index, !.ends = @ + 1,
                    !.spoken = IF index < Len(job.chunks)
                               THEN Append(@, job.chunks[index])
                               ELSE @]

\* onEnd: the end callback of the utterance of chunks[index]
onEnd(job) ==
    LET index == job.index + 1
    IN  [job EXCEPT !.index = index, !.ends = @ + 1,
                    !.spoken = IF index < Len(job.chunks)
                               THEN Append(@, job.chunks[index + 1])
                               ELSE @]

\* u.onerror -> reject: the promise of speakText rejects, nothing is spoken
onError(job) == [job EXCEPT !.failedAt = Len(job.spoken)]

\* the utterances speakChunk has queued between two versions of a job
NewUtterances(j, old, new) ==
    [k \in 1..(Len(new.spoken) - Len(old.spoken)) |->
        [job |-> j, chunk |-> new.spoken[Len(old.spoken) + k]]]

\* ------------------------------------------------------------------------
\* Capture
\* ------------------------------------------------------------------------
\* getDisplayMedia resolves; the recorder is created and started, and
\* speakText hands the first chunk to the synthesizer
CaptureGranted(j) ==
    /\ jobs[j].pc = "permission"
    /\ tracks' = [tracks EXCEPT ![j] = [video |-> "live", audio |-> "live",
                                        timer |-> "pending"]]
    /\ recorder' = [recorder EXCEPT ![j] = "recording"]
    /\ recRef' = j
    /\ chunksRef' = <<>>
    /\ LET job == speakText(jobs[j])
           \* if (synth.speaking) synth.cancel()
           queue == IF synth # <<>> THEN <<>> ELSE synth
       IN  /\ jobs' = [jobs EXCEPT ![j] = [job EXCEPT !.pc = "speaking",
                                                     !.completed = 1,
                                                     !.stages = Append(@, "speech")]]
           /\ synth' = queue \o NewUtterances(j, jobs[j], job)
    /\ UNCHANGED <<state, isBusy, njobs, ended, slices, call>>

\* getDisplayMedia rejects (permission denied, prompt dismissed)
CaptureDenied(j) ==
    /\ jobs[j].pc = "permission"
    /\ speakAndRecordCatch(j, jobs[j], DeniedError)
    /\ UNCHANGED <<recRef, chunksRef, njobs, recorder, slices, tracks, synth, call>>

\* getDisplayMedia resolves but new MediaRecorder(stream, audio/webm) throws
RecorderUnsupported(j) ==
    /\ jobs[j].pc = "permission"
    /\ tracks' = [tracks EXCEPT ![j] = [video |-> "live", audio |-> "live",
                                        timer |-> "pending"]]
    /\ speakAndRecordCatch(j, jobs[j], UnsupportedError)
    /\ UNCHANGED <<recRef, chunksRef, njobs, recorder, slices, synth, call>>

\* setTimeout(() => videoTrack.stop(), 1500)
VideoTrackTimeout(j) ==
    /\ tracks[j].timer = "pending"
    /\ tracks' = [tracks EXCEPT ![j].video = "ended", ![j].timer = "fired"]
    /\ UNCHANGED <<state, isBusy, recRef, chunksRef, njobs, jobs, ended, recorder,
                   slices, synth, call>>

\* ------------------------------------------------------------------------
\* Recorder
\* ------------------------------------------------------------------------
\* sizes of the buffer a recorder flushes when it is stopped
DataSizes == {0, 1}

\* a mis-step of ondataavailable: the buffer replaces the list
ondataavailableAssign(chunks, data) ==
    IF data.size > 0 THEN <<data>> ELSE chunks

\* rec.ondataavailable: if (e.data.size > 0) chunksRef.current.push(e.data)
ondataavailable(chunks, data) ==
    IF data.size > 0 THEN Append(chunks, data) ELSE chunks

\* what a run has received from its recorder (kept while the run waits
\* for the recorder)
Received(job, data) ==
    IF job.pc \in {"speaking", "stopping"}
    THEN [job EXCEPT !.delivered = Append(@, data)]
    ELSE job

\* the recorder of run j delivers a timeslice buffer (rec.start(250)); a
\* recorder nobody stops keeps delivering into chunksRef.current
DataAvailable(j) ==
    /\ recorder[j] = "recording"
    /\ slices < MaxData
    /\ LET data == [rec |-> j, seq |-> slices + 1, size |-> 1]
       IN  /\ jobs' = [jobs EXCEPT ![j] = Received(@, data)]
           /\ chunksRef' = ondataavailable(chunksRef, data)
    /\ slices' = slices + 1
    /\ UNCHANGED <<state, isBusy, recRef, njobs, ended, recorder, tracks, synth,
                   call>>

\* after rec.stop(): the recorder flushes its last buffer, which may be
\* empty, and fires stop; speakAndRecord builds the webm blob and starts
\* transcodeWebmToMp3
RecorderStopped(j, size) ==
    /\ jobs[j].pc = "stopping"
    /\ recorder[j] = "stopping"
    /\ LET data   == [rec |-> j, seq |-> 0, size |-> size]
           chunks == ondataavailable(chunksRef, data)
           job    == Received(jobs[j], data)
       IN  /\ recorder' = [recorder EXCEPT ![j] = "inactive"]
           /\ chunksRef' = chunks
           /\ jobs' = [jobs EXCEPT ![j] = [job EXCEPT !.webm = chunks,
                                                     !.pc = "transcoding",
                                                     !.completed = 3,
                                                     !.stages = Append(@, "transcode")]]
    /\ UNCHANGED <<state, isBusy, recRef, njobs, ended, slices, tracks, synth, call>>

\* ------------------------------------------------------------------------
\* Speech
\* ------------------------------------------------------------------------
\* The synthesizer speaks the utterance at the head of its queue and fires
\* exactly one of end and error for it (Web Speech API).
\* the synthesizer finishes the utterance at the head of its queue
UtteranceEnd ==
    /\ synth # <<>>
    /\ LET j        == Head(synth).job
           job      == onEnd(jobs[j])
           resolved == job.index >= Len(job.chunks)
       IN  /\ jobs[j].pc = "speaking"
           /\ state' = [state EXCEPT !.progress = Round25(job.index, Len(job.chunks))]
           /\ synth' = Tail(synth) \o NewUtterances(j, jobs[j], job)
           /\ IF resolved
              THEN \* await speakText(text) resumes: rec.stop()
                   /\ jobs' = [jobs EXCEPT ![j] = [job EXCEPT !.pc = "stopping",
                                                             !.completed = 2,
                                                             !.stages = Append(@, "stop")]]
                   /\ recorder' = [recorder EXCEPT ![j] = "stopping"]
              ELSE /\ jobs' = [jobs EXCEPT ![j] = job]
                   /\ UNCHANGED recorder
    /\ UNCHANGED <<isBusy, recRef, chunksRef, njobs, ended, slices, tracks, call>>

\* the synthesizer reports an error on the utterance at the head of its
\* queue: u.onerror rejects the promise of speakText
UtteranceError ==
    /\ synth # <<>>
    /\ LET j == Head(synth).job
       IN  /\ jobs[j].pc = "speaking"
           /\ synth' = Tail(synth)
           /\ speakAndRecordCatch(j, onError(jobs[j]), SpeechError)
    /\ UNCHANGED <<recRef, chunksRef, njobs, recorder, slices, tracks, call>>

\* ------------------------------------------------------------------------
\* Transcoding, image rendering, video composition
\* ------------------------------------------------------------------------
\* transcodeWebmToMp3 resolves: onProgress(100), the MP3 URL is stored,
\* speakAndRecord returns (finally: busy flag off), handleGenerate writes
\* progress 55 and starts generateImageFromText.  All of it runs in one turn
\* of the event loop; the state written last is the one kept.
TranscodeResolved(j) ==
    /\ jobs[j].pc = "transcoding"
    /\ state' = [state EXCEPT !.status = "encoding", !.progress = 55, !.mp3Url = j]
    /\ isBusy' = FALSE
    /\ jobs' = [jobs EXCEPT ![j].pc = "rendering", ![j].completed = 4,
                            ![j].stages = Append(@, "render"),
                            ![j].delivered = <<>>, ![j].webm = <<>>]
    /\ UNCHANGED <<recRef, chunksRef, njobs, ended, recorder, slices, tracks, synth,
                   call>>

\* the encoder fails while producing the MP3
TranscodeRejected(j) ==
    /\ jobs[j].pc = "transcoding"
    /\ speakAndRecordCatch(j, jobs[j], EncoderError)
    /\ UNCHANGED <<recRef, chunksRef, njobs, recorder, slices, tracks, synth, call>>

\* canvas.toBlob yields a blob: imageUrl and progress 65 are stored and
\* composeVideo starts (status encoding, progress 40)
ImageExported(j) ==
    /\ jobs[j].pc = "rendering"
    /\ state' = [state EXCEPT !.imageUrl = j, !.status = "encoding", !.progress = 40]
    /\ jobs' = [jobs EXCEPT ![j].pc = "composing", ![j].completed = 5,
                            ![j].stages = Append(@, "compose")]
    /\ UNCHANGED <<isBusy, recRef, chunksRef, njobs, ended, recorder, slices,
                   tracks, synth, call>>

\* canvas.toBlob yields null: throw new Error("Falha ao gerar imagem")
ImageExportFailed(j) ==
    /\ jobs[j].pc = "rendering"
    /\ handleGenerateCatch(j)
    /\ UNCHANGED <<recRef, chunksRef, njobs, recorder, slices, tracks, synth, call>>

\* composeVideo resolves: onProgress(100), then status ready
ComposeResolved(j) ==
    /\ jobs[j].pc = "composing"
    /\ state' = [state EXCEPT !.status = "ready", !.progress = 100, !.mp4Url = j]
    /\ jobs' = [jobs EXCEPT ![j] = EndedJob]
    /\ ended' = Outcome(j, [jobs[j] EXCEPT !.completed = 6], "done")
    /\ UNCHANGED <<isBusy, recRef, chunksRef, njobs, recorder, slices, tracks, synth,
                   call>>

\* the encoder fails while producing the MP4
ComposeRejected(j) ==
    /\ jobs[j].pc = "composing"
    /\ handleGenerateCatch(j)
    /\ UNCHANGED <<recRef, chunksRef, njobs, recorder, slices, tracks, synth, call>>

\* ------------------------------------------------------------------------
\* Specification
\* ------------------------------------------------------------------------
Next ==
    \/ \E t \in Texts : onChange(t)
    \/ Click
    \/ \E j \in JobIds : CaptureGranted(j)
    \/ \E j \in JobIds : CaptureDenied(j)
    \/ \E j \in JobIds : RecorderUnsupported(j)
    \/ \E j \in JobIds : VideoTrackTimeout(j)
    \/ \E j \in JobIds : DataAvailable(j)
    \/ \E j \in JobIds, size \in DataSizes : RecorderStopped(j, size)
    \/ UtteranceEnd
    \/ UtteranceError
    \/ \E j \in JobIds : TranscodeResolved(j)
    \/ \E j \in JobIds : TranscodeRejected(j)
    \/ \E j \in JobIds : ImageExported(j)
    \/ \E j \in JobIds : ImageExportFailed(j)
    \/ \E j \in JobIds : ComposeResolved(j)
    \/ \E j \in JobIds : ComposeRejected(j)

Spec == Init /\ [][Next]_vars

\* ------------------------------------------------------------------------
\* splitText on its own: every text of a few runs, every small maxLen
\* ------------------------------------------------------------------------
MaxRuns == 4    \* runs of an input text
MaxRep == 1     \* repetitions of the character of a run
MaxLen == 4     \* largest maxLen handed to splitText

pagevars == <<state, isBusy, recRef, chunksRef, njobs, jobs, ended, recorder,
              slices, tracks, synth>>

\* the run-length encoded strings of at most maxRuns runs over chars
StringsOver(chars, maxRuns) ==
    LET runs == {R(c, n) : c \in chars, n \in 1..MaxRep}
    IN  {s \in UNION {[1..k -> runs] : k \in 0..maxRuns} :
            \A i \in 1..(Len(s) - 1) : s[i].c # s[i + 1].c}

SplitChars == {"a", ".", "?", " ", "\n"}

SplitInit ==
    /\ PageInit
    /\ \E input \in StringsOver(SplitChars, MaxRuns), maxLen \in 1..MaxLen :
           call = [fn |-> "splitText", input |-> input, max |-> maxLen,
                   done |-> FALSE, result |-> <<>>]

SplitCall ==
    /\ call.fn = "splitText"
    /\ ~call.done
    /\ call' = [call EXCEPT !.done = TRUE,
                            !.result = splitText(call.input, call.max)]
    /\ UNCHANGED pagevars

SplitNext == SplitCall

SplitSpec == SplitInit /\ [][SplitNext]_vars

\* ------------------------------------------------------------------------
\* wrapText on its own: every text of a few runs, every small maxWidth
\* ------------------------------------------------------------------------
MaxWrapRuns == 5    \* runs of an input text
MaxWidth == 4       \* largest maxWidth handed to wrapText

WrapChars == {"i", "m", " ", "\n"}

WrapInit ==
    /\ PageInit
    /\ \E text \in StringsOver(WrapChars, MaxWrapRuns), maxWidth \in 1..MaxWidth :
           call = [fn |-> "wrapText", input |-> text, max |-> maxWidth,
                   done |-> FALSE, result |-> <<>>]

WrapCall ==
    /\ call.fn = "wrapText"
    /\ ~call.done
    /\ call' = [call EXCEPT !.done = TRUE,
                            !.result = wrapText(call.input, call.max)]
    /\ UNCHANGED pagevars

WrapNext == WrapCall

WrapSpec == WrapInit /\ [][WrapNext]_vars


\* ------------------------------------------------------------------------
\* Vocabulary of the properties
\* ------------------------------------------------------------------------
\* the run still has a stage pending
InFlight(j) ==
    jobs[j].pc \in {"permission", "speaking", "stopping", "transcoding",
                    "rendering", "composing"}
\* this step ends run j (its outcome is then ended'.job.pc)
Ends(j) == InFlight(j) /\ jobs'[j].pc = "ended" /\ ended'.run = j
\* nothing more happens in a run that has ended
EndedStays == \A j \in JobIds : jobs[j].pc = "ended" => jobs'[j] = jobs[j]
\* the buffers of a list that recorder j delivered
RECURSIVE Own(_, _)
Own(bufs, j) ==
    IF bufs = <<>> THEN <<>>
    ELSE IF Head(bufs).rec = j THEN <<Head(bufs)>> \o Own(Tail(bufs), j)
    ELSE Own(Tail(bufs), j)
\* the content of a list of buffers: one unit per byte, tagged with its buffer
RECURSIVE Bytes(_)
Bytes(bufs) ==
    IF bufs = <<>> THEN <<>>
    ELSE [k \in 1..Head(bufs).size |-> <<Head(bufs).rec, Head(bufs).seq>>]
         \o Bytes(Tail(bufs))

\* ------------------------------------------------------------------------
\* C1: whichever stage rejects (capture, speech, MP3 transcoding, image
\* rendering, video composition), the step on which the run ends leaves
\* status = "error" and an error message in the job state.
\* ------------------------------------------------------------------------
C1_RejectionSurfaced ==
    [][\A j \in JobIds :
          (Ends(j) /\ ended'.job.pc \in {"failed", "aborted"})
              => (state'.status = "error" /\ state'.error # None)]_vars

\* ------------------------------------------------------------------------
\* C2: at most one run of the pipeline is in flight at any time.
\* ------------------------------------------------------------------------
C2_SingleFlight ==
    \A j, k \in JobIds : (InFlight(j) /\ InFlight(k)) => j = k

\* ------------------------------------------------------------------------
\* C3: a run that obtained a capture stream never reaches ready or error
\* with its recorder still recording or a track of the stream still live.
\* ------------------------------------------------------------------------
C3_CaptureReleased ==
    [][\A j \in JobIds :
          (Ends(j) /\ ended'.job.pc \in {"done", "failed"}
                   /\ tracks'[j].audio # "none")
              => (/\ recorder'[j] # "recording"
                  /\ tracks'[j].audio # "live"
                  /\ tracks'[j].video # "live")]_vars

\* ------------------------------------------------------------------------
\* C4: within one run the stages start in pipeline order, a stage starts
\* only when the one before it has completed successfully, and once a stage
\* has rejected no further stage of that run starts.
\* ------------------------------------------------------------------------
StagesInOrder(job) ==
    /\ job.stages = SubSeq(Pipeline, 1, Len(job.stages))
    /\ job.pc \notin {"idle", "ended"}
           => Len(job.stages) = (IF job.pc = "done" THEN job.completed
                                                     ELSE job.completed + 1)

C4_PipelineOrder ==
    /\ [](StagesInOrder(ended.job) /\ \A j \in JobIds : StagesInOrder(jobs[j]))
    /\ [][EndedStays]_vars

C4_Witness ==
    /\ ended.job.pc = "failed"
    /\ ended.job.stages = <<"capture", "speech", "stop", "transcode">>

\* ------------------------------------------------------------------------
\* C5: speakText hands the chunks of splitText to the synthesizer in order,
\* each once, chunk N+1 only after the end callback of chunk N, and it
\* resolves only after the end callback of the last chunk.
\* ------------------------------------------------------------------------
SpokenInOrder(job) ==
    LET chunks == splitText(job.text, ChunkMaxLen)
    IN  /\ Len(job.spoken) <= Len(chunks)
        /\ job.spoken = SubSeq(chunks, 1, Len(job.spoken))
        /\ Len(job.spoken) <= job.ends + 1
        /\ job.completed >= 2 => (job.spoken = chunks /\ job.ends = Len(chunks))

C5_ChunksInOrder ==
    /\ SpokenInOrder(ended.job)
    /\ \A j \in JobIds : SpokenInOrder(jobs[j])
    /\ \A u \in 1..Len(synth) :
           LET job == jobs[synth[u].job]
           IN  /\ u = 1
               /\ job.pc = "speaking"
               /\ synth[u].chunk = job.spoken[Len(job.spoken)]
               /\ job.ends = Len(job.spoken) - 1

C5_Witness ==
    \E j \in JobIds :
        /\ jobs[j].pc = "stopping"
        /\ Len(jobs[j].spoken) = 2
        /\ jobs[j].ends = 2

\* ------------------------------------------------------------------------
\* C6: when the synthesizer reports an error on chunk k the job state goes
\* to status "error", chunks k+1.. are never handed to the synthesizer, and
\* no transcoding, rendering or composition is started for that run.
\* ------------------------------------------------------------------------
C6_SpeechErrorAborts ==
    /\ [](/\ \A j \in JobIds : jobs[j].failedAt = 0
          /\ \A u \in 1..Len(synth) : InFlight(synth[u].job)
          /\ ended.job.failedAt > 0 =>
                /\ ended.job.pc = "failed"
                /\ Len(ended.job.spoken) = ended.job.failedAt
                /\ ended.job.stages = <<"capture", "speech">>)
    /\ [][/\ EndedStays
          /\ \A j \in JobIds :
                (Ends(j) /\ ended'.job.failedAt > 0)
                    => (state'.status = "error" /\ state'.error = SpeechError.str)]_vars

C6_Witness ==
    /\ ended.job.failedAt = 1
    /\ Len(ended.job.chunks) = 2
    /\ state.status = "error"

\* ------------------------------------------------------------------------
\* C7: when the capture request is denied, the job state has status
\* "error" and a non-empty message, no recorder was started, no chunk was
\* spoken, and neither mp3Url nor mp4Url is set.
\* ------------------------------------------------------------------------
C7_DenialLeavesNoArtifacts ==
    [][\A j \in JobIds :
          (jobs[j].pc = "permission" /\ Ends(j) /\ tracks'[j].audio = "none")
              => (/\ state'.status = "error"
                  /\ state'.error \notin {None, ""}
                  /\ recorder'[j] = "none"
                  /\ ended'.job.spoken = <<>>
                  /\ state'.mp3Url = NoUrl
                  /\ state'.mp4Url = NoUrl)]_vars

\* ------------------------------------------------------------------------
\* C8: the recorder is stopped only after the end callback of the last
\* chunk; the buffered data is concatenated (and transcoding started) only
\* after the recorder's stop event; and the concatenation holds everything
\* the recorder delivered up to that event, in arrival order.
\* ------------------------------------------------------------------------
C8_RecorderFlushed ==
    \A j \in JobIds :
        /\ recorder[j] = "stopping"
               => (/\ jobs[j].pc = "stopping"
                   /\ jobs[j].chunks # <<>>
                   /\ jobs[j].ends = Len(jobs[j].chunks))
        /\ jobs[j].completed >= 3 => recorder[j] = "inactive"
        /\ jobs[j].pc = "transcoding"
               => Bytes(Own(jobs[j].webm, j)) = Bytes(jobs[j].delivered)

C8_Witness ==
    \E j \in JobIds :
        /\ jobs[j].pc = "transcoding"
        /\ Len(Bytes(Own(jobs[j].webm, j))) = 2
        /\ Len(jobs[j].delivered) = 2

\* ------------------------------------------------------------------------
\* C9 (its safety part): a run whose collaborators all succeed ends with
\* status "ready" and both mp3Url and mp4Url set, and status then stays
\* "ready" until a new run is started.
\* ------------------------------------------------------------------------
C9_ReadyWithArtifacts ==
    [][/\ \A j \in JobIds :
            (Ends(j) /\ ended'.job.pc = "done")
                => (/\ state'.status = "ready"
                    /\ state'.mp3Url # NoUrl
                    /\ state'.mp4Url # NoUrl)
       /\ (state.status = "ready" /\ state'.status # "ready")
                => njobs' = njobs + 1]_vars

\* ------------------------------------------------------------------------
\* C10: a click with a text longer than 200,000 characters after trimming
\* starts no stage, sets the error message and leaves status unchanged.
\* ------------------------------------------------------------------------
C10_TooLongRejected ==
    /\ [](/\ StrLen(ended.job.text) <= TextLimit
          /\ \A j \in JobIds : StrLen(jobs[j].text) <= TextLimit)
    /\ [][(Click /\ StrLen(Trim(state.text)) > TextLimit)
            => (/\ state'.error = TooLongMessage
                /\ state'.status = state.status
                /\ UNCHANGED <<isBusy, recRef, chunksRef, njobs, jobs, ended,
                               recorder, slices, tracks, synth, call>>)]_vars

C10_Witness ==
    /\ StrLen(Trim(state.text)) > TextLimit
    /\ state.error = TooLongMessage
    /\ state.status = "idle"

\* ------------------------------------------------------------------------
\* C11: while the text is empty or white space only, the generate action
\* is a no-op: it can start no stage and change no field of the job state
\* nor the busy flag (no step of Click changes any variable).
\* ------------------------------------------------------------------------
Blank(s) == \A i \in 1..Len(s) : IsSpace(s[i].c)

C11_BlankIsNoOp == Blank(state.text) => ~ENABLED <<Click>>_vars

\* a white-space-only text is in the text area while no run is busy and a
\* run could still be started
C11_Witness ==
    /\ state.text = TextBlank
    /\ ~isBusy
    /\ njobs < MaxJobs
    /\ state.status = "ready"

\* ------------------------------------------------------------------------
\* Vocabulary of the properties of splitText
\* ------------------------------------------------------------------------
\* splitText has returned
Split == call.fn = "splitText" /\ call.done
\* the chunk holds one segment: a block of terminators only at its end, and
\* no newline
SingleSegment(chunk) ==
    \A i \in 1..(Len(chunk) - 1) :
        /\ chunk[i].c # "\n"
        /\ IsTerminator(chunk[i].c) => IsTerminator(chunk[i + 1].c)
\* the text has no sentence terminator and no newline
NoBreak(s) == \A i \in 1..Len(s) : ~IsTerminator(s[i].c) /\ s[i].c # "\n"
\* the characters of a list of strings, in order, white space left out
RECURSIVE Letters(_)
Letters(strs) ==
    IF strs = <<>> THEN <<>>
    ELSE LET s == Head(strs)
         IN  IF s = <<>> THEN Letters(Tail(strs))
             ELSE IF IsSpace(Head(s).c) THEN Letters(<<Tail(s)>> \o Tail(strs))
             ELSE [k \in 1..Head(s).n |-> Head(s).c]
                  \o Letters(<<Tail(s)>> \o Tail(strs))

C14_NoBreakOneChunk ==
    (Split /\ NoBreak(call.input)) => call.result = <<Trim(call.input)>>

\* a text longer than maxLen after trimming, with white space around and
\* inside it
C14_Witness ==
    /\ Split
    /\ NoBreak(call.input)
    /\ Len(call.input) = MaxRuns
    /\ IsSpace(call.input[1].c)
    /\ Len(call.result) = 1
    /\ StrLen(call.result[1]) > call.max

\* ------------------------------------------------------------------------
\* C15: for an empty or white-space-only text splitText returns no chunk.
\* ------------------------------------------------------------------------
C15_BlankNoChunks ==
    (Split /\ Blank(call.input)) => call.result = <<>>

\* ------------------------------------------------------------------------
\* C16: with a width measure that adds up over characters, no line of
\* wrapText is wider than maxWidth, except a line that is a single word.
\* ------------------------------------------------------------------------
Wrapped == call.fn = "wrapText" /\ call.done
SingleWord(line) == \A i \in 1..Len(line) : ~IsSpace(line[i].c)

C16_LinesFit ==
    Wrapped => \A k \in 1..Len(call.result) :
                   Width(call.result[k]) <= call.max \/ SingleWord(call.result[k])

\* a line of two words that fills maxWidth, the third word wrapped to the
\* next line
C16_Witness ==
    /\ Wrapped
    /\ Len(call.result) = 2
    /\ ~SingleWord(call.result[1])
    /\ Width(call.result[1]) = call.max
    /\ Width(call.result[2]) > 0

\* ------------------------------------------------------------------------
\* C17: two runs of the pipeline are independent: once a later run has
\* started, no step of an earlier run writes into the job state.  (The
\* artifacts of a run are values nothing writes to: blobs are immutable
\* and no object URL is revoked.)
\* ------------------------------------------------------------------------
C17_RunsIndependent ==
    [][\A j \in JobIds :
          (j < njobs /\ jobs'[j] # jobs[j]) => state' = state]_vars

\* ------------------------------------------------------------------------
\* C18: whenever status is "ready", mp3Url and mp4Url are both set and no
\* error message is set.
\* ------------------------------------------------------------------------
C18_ReadyIsComplete ==
    state.status = "ready"
        => (/\ state.mp3Url # NoUrl
            /\ state.mp4Url # NoUrl
            /\ state.error = None)

\* ------------------------------------------------------------------------
\* C19: once a run has started, progress is in 0..100; the start of a run
\* writes 0; no step of a run in flight lowers it; and the end callback of
\* the k-th of n chunks leaves it at 25 * k / n rounded to the nearest
\* integer.
\* ------------------------------------------------------------------------
C19_ProgressMonotone ==
    /\ [](njobs > 0 => state.progress \in 0..100)
    /\ [][/\ njobs' # njobs => state'.progress = 0
          /\ \A j \in JobIds :
                (InFlight(j) /\ jobs'[j] # jobs[j])
                    => /\ state'.progress >= state.progress
                       /\ jobs'[j].ends > jobs[j].ends
                             => LET k == jobs'[j].ends
                                    n == Len(jobs'[j].chunks)
                                    p == state'.progress
                                IN  /\ 2 * n * p <= 50 * k + n
                                    /\ 50 * k + n < 2 * n * (p + 1)]_vars

====
